---- MODULE Spec2Model ----
(***************************************************************************)
(* Model of the two scripts of the repository:                             *)
(*   src/cmip6_variant_finder.py  (catalog matcher)                        *)
(*   src/demo_run_lithops.py      (serverless batch dispatcher)            *)
(*                                                                         *)
(* An object-store path is modelled as the sequence of its '/'-separated   *)
(* segments, so that fn.split('/')[k] is the (k+1)-th element.  A pandas   *)
(* DataFrame is the sequence of its rows; the empty DataFrame is << >>.    *)
(***************************************************************************)
EXTENDS Integers, Sequences, FiniteSets, TLC

VARIABLES
    m_pc,             \* matcher main: "start" | "done"
    listings,         \* matcher main: experiment -> what s3.glob returned
    m_found,          \* matcher main: what find_model_variants gave main
    m_out,            \* matcher main: how main ended and what it wrote
    c_pc,             \* find_common_models harness: "start" | "done"
    scenario_runs,    \* find_common_models argument
    historical_runs,  \* find_common_models argument
    scenarios,        \* find_common_models argument
    common_indices,   \* find_common_models result
    exported,         \* the table main's export block builds from them
    d_pc,             \* dispatcher driver: "loop" | "exited" | "raised"
    urls_in,          \* dispatcher: resolved input locations, in input order
    urls_out,         \* dispatcher: output location of each input
    data,             \* object store: the dataset behind each input location
    task,             \* per local task: "pending" | "preprocessed" | "returned" | "raised"
    result,           \* per local task: what its future holds once it has finished
    jobs,             \* per local task: the remote jobs its fexec.map submitted
    store,            \* object store: what each output location holds
    creations,        \* per output location: how often its shell was (re)created
    log               \* the lines the driver's completion loop logged

matcher_vars == <<m_pc, listings, m_found, m_out>>
common_vars == <<c_pc, scenario_runs, historical_runs, scenarios, common_indices,
                 exported>>
driver_vars == <<d_pc, urls_in, urls_out, data, task, result, jobs, store, creations,
                 log>>

(***************************************************************************)
(* Bounds                                                                  *)
(***************************************************************************)
\* longest listing one s3.glob call returns
MaxListing == 2
\* most datasets listed in urls.csv
MaxDatasets == 2
\* most calendar years one dataset covers
MaxYears == 3
\* first year a dataset may start in
FirstYear == 2015
\* time steps of a full (leap) year, standing for the 366 days
StepsPerYear == 3
\* the step only leap years have in the source calendar (29 February)
LeapStep == 2

(***************************************************************************)
(* Generic helpers                                                         *)
(***************************************************************************)
Range(s) == {s[i] : i \in 1..Len(s)}

\* sequences over S without repetition, of length at most n
DistinctSeqs(S, n) ==
    UNION {{s \in [1..k -> S] : \A i, j \in 1..k : i # j => s[i] # s[j]} : k \in 0..n}

RECURSIVE ConcatAll(_)
ConcatAll(ss) == IF ss = <<>> THEN <<>> ELSE Head(ss) \o ConcatAll(Tail(ss))

\* Python string order on the names the model uses
SortedNames == <<"Amon", "I1", "I2", "historical", "modelA", "modelB", "r1", "r2",
                 "ssp126", "ssp245", "ssp370", "ssp585">>
Rank(s) == CHOOSE i \in 1..Len(SortedNames) : SortedNames[i] = s

\* Python tuple order on (model, variant) keys
KeyLess(a, b) ==
    \/ Rank(a[1]) < Rank(b[1])
    \/ a[1] = b[1] /\ Rank(a[2]) < Rank(b[2])

\* s sorted ascending, duplicates kept (ndarray.sort)
RECURSIVE Insert(_, _)
Insert(x, s) ==
    IF s = <<>> THEN <<x>>
    ELSE IF KeyLess(Head(s), x) THEN <<Head(s)>> \o Insert(x, Tail(s))
    ELSE <<x>> \o s
RECURSIVE Sort(_)
Sort(s) == IF s = <<>> THEN <<>> ELSE Insert(Head(s), Sort(Tail(s)))

(***************************************************************************)
(* Catalog matcher: src/cmip6_variant_finder.py                            *)
(***************************************************************************)
\* main's SCENARIOS dictionary, in its iteration order
SCENARIOS == <<"ssp245", "ssp585", "ssp126", "ssp370">>
Historical == "historical"
Experiments == Range(SCENARIOS) \cup {Historical}

\* a key that s3://cmip6-pds/CMIP6/*/*/{experiment}/*/{time_resolution}/{variable}/
\* matches, as s3.glob returns it: two wildcard segments, the experiment,
\* one wildcard segment, the time resolution and the variable
CatalogPath(inst, model, experiment, variant) ==
    <<"cmip6-pds", "CMIP6", inst, model, experiment, variant, "Amon", "tasmax">>

\* the keys the bucket may hold for one experiment: modelA is published by
\* two institutions
CatalogPaths(experiment) ==
    { CatalogPath("I1", "modelA", experiment, "r1"),
      CatalogPath("I2", "modelA", experiment, "r1"),
      CatalogPath("I1", "modelB", experiment, "r1") }

\* what one s3.glob call may return
Listings(experiment) == DistinctSeqs(CatalogPaths(experiment), MaxListing)

\* fn.split('/')[k]
Segment(fn, k) == fn[k + 1]

\* get_model_runs: None for an empty listing, else the table indexed by
\* the columns model = split('/')[4] and variant = split('/')[6] (on a key
\* the pattern matches: the experiment and the time resolution), with the
\* raw path in column url
get_model_runs(fns) ==
    IF fns = <<>> THEN [none |-> TRUE, rows |-> <<>>]
    ELSE [none |-> FALSE,
          rows |-> [i \in 1..Len(fns) |->
                      [model |-> Segment(fns[i], 4),
                       variant |-> Segment(fns[i], 6),
                       url |-> fns[i]]]]

\* runs['scenario'] = scenario
WithScenario(rows, scenario) ==
    [i \in 1..Len(rows) |->
        [model |-> rows[i].model, variant |-> rows[i].variant,
         url |-> rows[i].url, scenario |-> scenario]]

\* the loop over scenarios and the pd.concat (lines 46-53)
RECURSIVE ScenarioTables(_, _)
ScenarioTables(glob, scens) ==
    IF scens = <<>> THEN <<>>
    ELSE LET runs == get_model_runs(glob[Head(scens)])
         IN  (IF runs.none THEN <<>> ELSE <<WithScenario(runs.rows, Head(scens))>>)
             \o ScenarioTables(glob, Tail(scens))

ConcatScenarioRuns(glob, scens) == ConcatAll(ScenarioTables(glob, scens))

\* `runs or pd.DataFrame()` (line 56): None is falsy and gives the empty
\* table; the truth value of a DataFrame is ambiguous and raises ValueError
OrEmptyFrame(runs) ==
    IF runs.none THEN [raised |-> FALSE, rows |-> <<>>]
    ELSE [raised |-> TRUE, rows |-> <<>>]

find_model_variants(glob, scens) ==
    LET sruns == ConcatScenarioRuns(glob, scens)
        hist == OrEmptyFrame(get_model_runs(glob[Historical]))
    IN  IF hist.raised
        THEN [raised |-> TRUE, scenario_runs |-> <<>>, historical_runs |-> <<>>]
        ELSE [raised |-> FALSE, scenario_runs |-> sruns, historical_runs |-> hist.rows]

\* df.index.values
IndexValues(rows) == [i \in 1..Len(rows) |-> <<rows[i].model, rows[i].variant>>]

\* scenario_runs[scenario_runs.scenario == scen]
RowsOfScenario(rows, scen) == SelectSeq(rows, LAMBDA r : r.scenario = scen)

\* np.unique: sorted, duplicates dropped
RECURSIVE DropAdjacentDuplicates(_)
DropAdjacentDuplicates(s) ==
    IF Len(s) < 2 THEN s
    ELSE IF s[1] = s[2] THEN DropAdjacentDuplicates(Tail(s))
    ELSE <<s[1]>> \o DropAdjacentDuplicates(Tail(s))
Unique(ar) == DropAdjacentDuplicates(Sort(ar))

\* np.intersect1d: unique both, concatenate, sort, keep aux[i] = aux[i+1]
Intersect1d(ar1, ar2) ==
    LET aux == Sort(Unique(ar1) \o Unique(ar2))
        idx == {i \in 1..(Len(aux) - 1) : aux[i] = aux[i + 1]}
        RECURSIVE Pick(_)
        Pick(i) == IF i >= Len(aux) THEN <<>>
                   ELSE (IF i \in idx THEN <<aux[i]>> ELSE <<>>) \o Pick(i + 1)
    IN  Pick(1)

\* functools.reduce(np.intersect1d, arrays) on a non-empty list
RECURSIVE ReduceIntersect(_, _)
ReduceIntersect(acc, arrays) ==
    IF arrays = <<>> THEN acc
    ELSE ReduceIntersect(Intersect1d(acc, Head(arrays)), Tail(arrays))

\* lines 67-71 without the historical index in the list that is reduced
find_common_models_scenarios_only(sruns, hruns, scens) ==
    IF sruns = <<>> \/ hruns = <<>> \/ scens = <<>> THEN <<>>
    ELSE LET arrays == [i \in 1..Len(scens) |->
                          IndexValues(RowsOfScenario(sruns, scens[i]))]
         IN  ReduceIntersect(Head(arrays), Tail(arrays))

find_common_models(sruns, hruns, scens) ==
    IF sruns = <<>> \/ hruns = <<>> THEN <<>>
    ELSE LET arrays == [i \in 1..Len(scens) |-> IndexValues(RowsOfScenario(sruns, scens[i]))]
                       \o <<IndexValues(hruns)>>
         IN  ReduceIntersect(Head(arrays), Tail(arrays))

\* lines 116-118: the scenario column is the url column of the masked rows,
\* in the order the rows have in scenario_runs
ScenarioColumn(sruns, common, scen) ==
    LET masked == SelectSeq(sruns,
                    LAMBDA r : <<r.model, r.variant>> \in Range(common) /\ r.scenario = scen)
    IN  [i \in 1..Len(masked) |-> masked[i].url]

\* line 120: historical_runs.loc[common_indices, 'url'].values, the rows of
\* each requested key in request order
RECURSIVE HistoricalColumn(_, _)
HistoricalColumn(hruns, common) ==
    IF common = <<>> THEN <<>>
    ELSE LET hit == SelectSeq(hruns, LAMBDA r : <<r.model, r.variant>> = Head(common))
         IN  [i \in 1..Len(hit) |-> hit[i].url] \o HistoricalColumn(hruns, Tail(common))

\* lines 110-120: the exported table, or ValueError when a column's length
\* differs from the number of matched keys
ExportTable(sruns, hruns, common, scens) ==
    LET cols == [s \in Range(scens) |-> ScenarioColumn(sruns, common, s)]
        hcol == HistoricalColumn(hruns, common)
    IN  IF (\E s \in Range(scens) : Len(cols[s]) # Len(common)) \/ Len(hcol) # Len(common)
        THEN [raised |-> TRUE, rows |-> <<>>]
        ELSE [raised |-> FALSE,
              rows |-> [i \in 1..Len(common) |->
                          [model |-> common[i][1], variant |-> common[i][2],
                           scenario |-> [s \in Range(scens) |-> cols[s][i]],
                           historical |-> hcol[i]]]]

\* main (lines 74-126) on the listings glob: how it ends and what it writes
main(glob) ==
    LET found == find_model_variants(glob, SCENARIOS)
    IN  IF found.raised
        THEN [end |-> "raised", message |-> "none", csv |-> <<>>, written |-> FALSE]
        ELSE LET common == find_common_models(found.scenario_runs,
                                              found.historical_runs, SCENARIOS)
             IN  IF Len(common) = 0
                 THEN [end |-> "returned", message |-> "no common variants",
                       csv |-> <<>>, written |-> FALSE]
                 ELSE LET table == ExportTable(found.scenario_runs,
                                               found.historical_runs, common, SCENARIOS)
                      IN  IF table.raised
                          THEN [end |-> "raised", message |-> "none",
                                csv |-> <<>>, written |-> FALSE]
                          ELSE [end |-> "returned", message |-> "found",
                                csv |-> table.rows, written |-> TRUE]

(***************************************************************************)
(* Batch dispatcher: src/demo_run_lithops.py                               *)
(***************************************************************************)
OutputBucket == "output-bucket"

\* an entry of urls.csv: a dataset prefix of the input bucket
Prefix(model, table) ==
    <<"cmip6-pds", "CMIP6", "ScenarioMIP", "I1", model, "ssp245", "r1", table, "hus">>

\* the prefixes urls.csv may list
Prefixes ==
    {Prefix("modelA", "Amon"), Prefix("modelA", "day"), Prefix("modelB", "Amon"),
     Prefix("modelC", "Amon")}

\* s3.glob('s3://' + url + '/*/*/'): the grid/version folders under a
\* prefix, in the sorted order glob returns them
GlobVersions(prefix) == <<prefix \o <<"gn", "v1">>, prefix \o <<"gn", "v2">>>>

\* line 158: 's3://' + s3.glob(...)[-1], split on '/'
Resolve(prefix) ==
    LET found == GlobVersions(prefix)
    IN  <<"s3:", "">> \o found[Len(found)]

InputUrl(model, table) == Resolve(Prefix(model, table))

\* the input locations urls.csv may resolve to
InputUrls == {Resolve(p) : p \in Prefixes}

\* line 173: f's3://{output_bucket}/' + segments 3..8 joined by '_' + '_tpw'
OutputUrl(url) ==
    <<"s3:", "", OutputBucket,
      <<Segment(url, 3), Segment(url, 4), Segment(url, 5), Segment(url, 6),
        Segment(url, 7), Segment(url, 8), "tpw">>>>

OutputUrls == {OutputUrl(u) : u \in InputUrls}

\* get_attrs: the fixed template and three path segments
get_attrs(url_in) ==
    [title |-> "Serverless Climate Data Processing Demo",
     institution |-> "NC Institute for Climate Studies",
     date |-> "time of import",
     model |-> Segment(url_in, 6),
     scenario |-> Segment(url_in, 7),
     variant |-> Segment(url_in, 8)]

\* the source calendar has step LeapStep in leap years only
IsLeap(y) == y % 4 = 0
InSourceCalendar(y, d) == d # LeapStep \/ IsLeap(y)

\* xr.open_zarr(url_in).hus: the time axis of a stored dataset covering n
\* whole years from year `first`, every step holding data
SourceAxis(first, n) ==
    ConcatAll([k \in 1..n |->
        LET y == first + k - 1
        IN  SelectSeq([d \in 1..StepsPerYear |-> [year |-> y, step |-> d, value |-> "data"]],
                      LAMBDA t : InSourceCalendar(t.year, t.step))])

\* ds.convert_calendar('366_day', missing=np.nan): the axis is reindexed
\* to every step of the all-leap calendar from its first to its last time
\* step; the steps the source lacks hold NaN
convert_calendar(axis) ==
    IF axis = <<>> THEN <<>>
    ELSE LET lo == axis[1]
             hi == axis[Len(axis)]
             has(y, d) == \E i \in 1..Len(axis) : axis[i].year = y /\ axis[i].step = d
             inRange(y, d) ==
                 /\ (y > lo.year \/ (y = lo.year /\ d >= lo.step))
                 /\ (y < hi.year \/ (y = hi.year /\ d <= hi.step))
         IN  ConcatAll([k \in 1..(hi.year - lo.year + 1) |->
                 LET y == lo.year + k - 1
                 IN  SelectSeq([d \in 1..StepsPerYear |->
                                  [year |-> y, step |-> d,
                                   value |-> IF has(y, d) THEN "data" ELSE "nan"]],
                               LAMBDA t : inRange(t.year, t.step))])

\* the attributes tpw leaves on its result (line 135)
TpwAttrs == [units |-> "mm"]

\* {**result.attrs, **get_attrs(url_in)}
MergeAttrs(a, b) ==
    [k \in DOMAIN a \cup DOMAIN b |-> IF k \in DOMAIN b THEN b[k] ELSE a[k]]

\* tpw: fillna(0), integrate over plev, scale; the time axis is kept
tpw(ds) ==
    [i \in 1..Len(ds) |->
        [year |-> ds[i].year, step |-> ds[i].step,
         value |-> IF ds[i].value = "nan" THEN "zero" ELSE "tpw"]]

\* np.unique(ds.time.dt.year): the distinct years, ascending
RECURSIVE AscendingYears(_)
AscendingYears(Y) ==
    IF Y = {} THEN <<>>
    ELSE LET lo == CHOOSE y \in Y : \A z \in Y : y <= z
         IN  <<lo>> \o AscendingYears(Y \ {lo})
UniqueYears(ds) == AscendingYears({ds[i].year : i \in 1..Len(ds)})

\* the filter written with >= : the slice runs on to the end of the axis
YearFilterFrom(ds, yr) == SelectSeq(ds, LAMBDA t : t.year >= yr)

\* result.where(result.time.dt.year == yr, drop=True)
YearFilter(ds, yr) == SelectSeq(ds, LAMBDA t : t.year = yr)

Coord(t) == <<t.year, t.step>>
Coords(ds) == {Coord(ds[i]) : i \in 1..Len(ds)}

\* what an output location holds before anything was written to it
Absent == [exists |-> FALSE, attrs |-> <<>>, time |-> {}, written |-> {}]

\* preprocess: raises when the dataset cannot be opened; otherwise the
\* shell that to_zarr(compute=False, mode='w') leaves at url_out (metadata
\* and coordinates, no data) and the normalized dataset it returns
preprocess(dataset, url_in) ==
    IF ~dataset.readable
    THEN [raised |-> TRUE, ds |-> <<>>, shell |-> Absent]
    ELSE LET ds == convert_calendar(SourceAxis(dataset.first, dataset.nyears))
             res == tpw(ds)
         IN  [raised |-> FALSE, ds |-> ds,
              shell |-> [exists |-> TRUE,
                         attrs |-> MergeAttrs(TpwAttrs, get_attrs(url_in)),
                         time |-> Coords(res),
                         written |-> {}]]

\* line 111 without np.unique: one argument tuple per time step
JobArgsPerStep(ds, url_in, url_out) ==
    [k \in 1..Len(ds) |->
        [url_in |-> url_in, url_out |-> url_out, yr |-> ds[k].year,
         state |-> "submitted"]]

\* line 111: one argument tuple per distinct year
JobArgs(ds, url_in, url_out) ==
    LET yrs == UniqueYears(ds)
    IN  [k \in 1..Len(yrs) |->
            [url_in |-> url_in, url_out |-> url_out, yr |-> yrs[k],
             state |-> "submitted"]]

\* lines 115-119 with the disabled check switched on: an error string
\* unless every job has already written its slice
CallLambdaResultChecked(url_in, submitted) ==
    IF \A k \in 1..Len(submitted) : submitted[k].state = "done"
    THEN url_in ELSE <<"ERROR">>

\* line 119: call_lambda's return value, whatever became of the jobs
CallLambdaResult(url_in, submitted) == url_in

\* what a future holds before it finishes, and after its task raised
NoResult == <<>>
Raised == <<"exception">>

\* process: the slice of year yr, written by to_zarr(region='auto') into
\* the region of the target that holds the slice's own coordinates; raises
\* when the dataset cannot be opened or the target has no such region
process(dataset, target, yr) ==
    IF ~dataset.readable THEN [raised |-> TRUE, target |-> target]
    ELSE LET ds == convert_calendar(SourceAxis(dataset.first, dataset.nyears))
             slice == YearFilter(tpw(ds), yr)
         IN  IF ~target.exists \/ ~(Coords(slice) \subseteq target.time)
             THEN [raised |-> TRUE, target |-> target]
             ELSE [raised |-> FALSE,
                   target |-> [target EXCEPT !.written = @ \cup Coords(slice)]]

\* lines 188-189 without the try/except: a failed future's exception
\* leaves the loop
LoopBodyUncaught(i, n, t, state, res) ==
    [raises |-> state # "returned",
     line |-> [kind |-> "completed", index |-> i + 1, total |-> n,
               detail |-> res, task |-> t]]

\* lines 187-191: the body of the completion loop for the i-th future
\* yielded (i counts from 0), which belongs to local task t
LoopBody(i, n, t, state, res) ==
    IF state = "returned"
    THEN [raises |-> FALSE,
          line |-> [kind |-> "completed", index |-> i + 1, total |-> n,
                    detail |-> res, task |-> t]]
    ELSE [raises |-> FALSE,
          line |-> [kind |-> "error", index |-> i + 1, total |-> n,
                    detail |-> res, task |-> t]]

NoOutput == [end |-> "none", message |-> "none", csv |-> <<>>, written |-> FALSE]
NotCalled == [raised |-> FALSE, scenario_runs |-> <<>>, historical_runs |-> <<>>]
NoTable == [raised |-> FALSE, rows |-> <<>>]

(***************************************************************************)
(* State machines                                                          *)
(***************************************************************************)
vars == <<m_pc, listings, m_found, m_out, c_pc, scenario_runs, historical_runs,
          scenarios, common_indices, exported, d_pc, urls_in, urls_out, data, task,
          result, jobs, store, creations, log>>

MatcherIdle ==
    /\ m_pc = "idle"
    /\ listings = [e \in Experiments |-> <<>>]
    /\ m_found = NotCalled
    /\ m_out = NoOutput

CommonIdle ==
    /\ c_pc = "idle"
    /\ scenario_runs = <<>>
    /\ historical_runs = <<>>
    /\ scenarios = <<>>
    /\ common_indices = <<>>
    /\ exported = NoTable

DriverIdle ==
    /\ d_pc = "idle"
    /\ urls_in = <<>>
    /\ urls_out = <<>>
    /\ data = <<>>
    /\ task = <<>>
    /\ result = <<>>
    /\ jobs = <<>>
    /\ store = <<>>
    /\ creations = <<>>
    /\ log = <<>>

\* ---- the matcher run: one call of main against a bucket ----
InitMain ==
    /\ m_pc = "start"
    /\ listings = [e \in Experiments |-> <<>>]
    /\ m_found = NotCalled
    /\ m_out = NoOutput
    /\ CommonIdle
    /\ DriverIdle

\* the five s3.glob calls of one run, in call order
GlobResults(l) ==
    [e \in Experiments |->
        IF e = Historical THEN l[Len(SCENARIOS) + 1]
        ELSE l[CHOOSE i \in 1..Len(SCENARIOS) : SCENARIOS[i] = e]]

RunMain ==
    /\ m_pc = "start"
    /\ \E l1 \in Listings(SCENARIOS[1]), l2 \in Listings(SCENARIOS[2]),
          l3 \in Listings(SCENARIOS[3]), l4 \in Listings(SCENARIOS[4]),
          lh \in Listings(Historical) :
          LET glob == GlobResults(<<l1, l2, l3, l4, lh>>)
          IN  /\ listings' = glob
              /\ m_found' = find_model_variants(glob, SCENARIOS)
              /\ m_out' = main(glob)
    /\ m_pc' = "done"
    /\ UNCHANGED common_vars
    /\ UNCHANGED driver_vars

NextMain == RunMain
SpecMain == InitMain /\ [][NextMain]_vars

\* ---- find_common_models and the export block on given tables ----
\* the scenarios whose rows the combined table may hold
TableScenarios == SubSeq(SCENARIOS, 1, 2)
\* the required scenarios a caller may ask for: any sub-list of these
RequiredPool == SubSeq(SCENARIOS, 1, 3)
RequiredLists ==
    {SelectSeq(RequiredPool, LAMBDA s : s \in S) : S \in SUBSET Range(RequiredPool)}

\* the tables a caller may pass to find_common_models: rows indexed by
\* (model, variant) with a location in column url; modelA/r1 can occur
\* twice in one table, with two locations
TableRow(inst, model, variant, experiment) ==
    [model |-> model, variant |-> variant,
     url |-> <<"cmip6-pds", "CMIP6", inst, model, experiment, variant>>]
TableRows(experiment) ==
    { TableRow("I1", "modelA", "r1", experiment),
      TableRow("I2", "modelA", "r1", experiment),
      TableRow("I1", "modelB", "r1", experiment) }
Tables(experiment) == DistinctSeqs(TableRows(experiment), MaxListing)

InitCommon ==
    /\ c_pc = "start"
    /\ \E t1 \in Tables(TableScenarios[1]), t2 \in Tables(TableScenarios[2]) :
          scenario_runs = WithScenario(t1, TableScenarios[1])
                          \o WithScenario(t2, TableScenarios[2])
    /\ historical_runs \in Tables(Historical)
    /\ scenarios \in RequiredLists
    /\ common_indices = <<>>
    /\ exported = NoTable
    /\ MatcherIdle
    /\ DriverIdle

ApplyCommon ==
    /\ c_pc = "start"
    /\ common_indices' = find_common_models(scenario_runs, historical_runs, scenarios)
    /\ c_pc' = "matched"
    /\ UNCHANGED <<scenario_runs, historical_runs, scenarios, exported>>
    /\ UNCHANGED matcher_vars
    /\ UNCHANGED driver_vars

\* lines 102-120 of main on the same tables
ApplyExport ==
    /\ c_pc = "matched"
    /\ Len(common_indices) # 0
    /\ exported' = ExportTable(scenario_runs, historical_runs, common_indices, scenarios)
    /\ c_pc' = "exported"
    /\ UNCHANGED <<scenario_runs, historical_runs, scenarios, common_indices>>
    /\ UNCHANGED matcher_vars
    /\ UNCHANGED driver_vars

NextCommon == ApplyCommon \/ ApplyExport
SpecCommon == InitCommon /\ [][NextCommon]_vars

\* ---- the dispatcher: thread pool, local tasks, remote jobs ----
\* a dataset that cannot be opened, or one covering n whole years
Unreadable == [readable |-> FALSE, first |-> FirstYear, nyears |-> 0]
Covering(first, n) == [readable |-> TRUE, first |-> first, nyears |-> n]
Datasets == {Unreadable} \cup {Covering(FirstYear, n) : n \in 1..MaxYears}

\* the bucket the driver runs against: three one-year datasets and one
\* object that is no readable dataset
StoredDataset(u) ==
    IF u = InputUrl("modelC", "Amon") THEN Unreadable
    ELSE Covering(FirstYear, 1)

\* the state when the thread pool is entered (line 178): inputs resolved,
\* outputs named, one local task per input, nothing yet at the outputs
PoolEntered ==
    /\ d_pc = "loop"
    /\ urls_out = [i \in 1..Len(urls_in) |-> OutputUrl(urls_in[i])]
    /\ task = [i \in 1..Len(urls_in) |-> "pending"]
    /\ result = [i \in 1..Len(urls_in) |-> NoResult]
    /\ jobs = [i \in 1..Len(urls_in) |-> <<>>]
    /\ store = [o \in OutputUrls |-> Absent]
    /\ creations = [o \in OutputUrls |-> 0]
    /\ log = <<>>
    /\ MatcherIdle
    /\ CommonIdle

\* the driver on any list of up to MaxDatasets inputs of the bucket
InitDriver ==
    /\ \E n \in 1..MaxDatasets : \E csv \in [1..n -> Prefixes] :
          urls_in = [i \in 1..n |-> Resolve(csv[i])]
    /\ data = [u \in InputUrls |-> StoredDataset(u)]
    /\ PoolEntered

\* one input, holding any dataset of up to MaxYears years
InitDispatch ==
    /\ \E p \in Prefixes : urls_in = <<Resolve(p)>>
    /\ data \in [Range(urls_in) -> Datasets]
    /\ PoolEntered

Tasks == 1..Len(urls_in)

\* call_lambda, line 108: preprocess creates (or overwrites) the shell
Preprocess(i) ==
    /\ task[i] = "pending"
    /\ LET pre == preprocess(data[urls_in[i]], urls_in[i])
       IN  IF pre.raised
           THEN /\ task' = [task EXCEPT ![i] = "raised"]
                /\ result' = [result EXCEPT ![i] = Raised]
                /\ UNCHANGED <<store, creations>>
           ELSE /\ task' = [task EXCEPT ![i] = "preprocessed"]
                /\ UNCHANGED result
                /\ store' = [store EXCEPT ![urls_out[i]] = pre.shell]
                /\ creations' = [creations EXCEPT ![urls_out[i]] = @ + 1]
    /\ UNCHANGED <<d_pc, urls_in, urls_out, data, jobs, log>>
    /\ UNCHANGED matcher_vars
    /\ UNCHANGED common_vars

\* call_lambda, lines 111-113: one job per year is handed to fexec.map;
\* the call is still inside fexec.map while the workers may already run
Submit(i) ==
    /\ task[i] = "preprocessed"
    /\ jobs' = [jobs EXCEPT ![i] =
                  JobArgs(preprocess(data[urls_in[i]], urls_in[i]).ds,
                          urls_in[i], urls_out[i])]
    /\ task' = [task EXCEPT ![i] = "submitted"]
    /\ UNCHANGED <<d_pc, urls_in, urls_out, data, result, store, creations, log>>
    /\ UNCHANGED matcher_vars
    /\ UNCHANGED common_vars

\* call_lambda, lines 115-119: fexec.map has come back and the input
\* location is returned, the future of the local task completes
Return(i) ==
    /\ task[i] = "submitted"
    /\ result' = [result EXCEPT ![i] = CallLambdaResult(urls_in[i], jobs[i])]
    /\ task' = [task EXCEPT ![i] = "returned"]
    /\ UNCHANGED <<d_pc, urls_in, urls_out, data, jobs, store, creations, log>>
    /\ UNCHANGED matcher_vars
    /\ UNCHANGED common_vars

\* fexec.map itself raises, before it has handed any job to the backend or
\* after it has handed them over; jobs handed over stay with the backend
SubmitRaises(i) ==
    /\ task[i] \in {"preprocessed", "submitted"}
    /\ task' = [task EXCEPT ![i] = "raised"]
    /\ result' = [result EXCEPT ![i] = Raised]
    /\ UNCHANGED <<d_pc, urls_in, urls_out, data, jobs, store, creations, log>>
    /\ UNCHANGED matcher_vars
    /\ UNCHANGED common_vars

\* a remote worker runs process for job k of task i
Process(i, k) ==
    /\ jobs[i][k].state = "submitted"
    /\ LET j == jobs[i][k]
           run == process(data[j.url_in], store[j.url_out], j.yr)
       IN  /\ jobs' = [jobs EXCEPT ![i][k].state =
                         IF run.raised THEN "failed" ELSE "done"]
           /\ store' = [store EXCEPT ![j.url_out] = run.target]
    /\ UNCHANGED <<d_pc, urls_in, urls_out, data, task, result, creations, log>>
    /\ UNCHANGED matcher_vars
    /\ UNCHANGED common_vars

\* a remote worker dies (timeout, out of memory) before it writes
ProcessDies(i, k) ==
    /\ jobs[i][k].state = "submitted"
    /\ jobs' = [jobs EXCEPT ![i][k].state = "failed"]
    /\ UNCHANGED <<d_pc, urls_in, urls_out, data, task, result, store, creations, log>>
    /\ UNCHANGED matcher_vars
    /\ UNCHANGED common_vars

Reported == {log[x].task : x \in 1..Len(log)}

\* lines 186-191: as_completed yields a finished future not yet yielded
Report(t) ==
    /\ d_pc = "loop"
    /\ t \notin Reported
    /\ task[t] \in {"returned", "raised"}
    /\ LET body == LoopBody(Len(log), Len(urls_in), t, task[t], result[t])
       IN  IF body.raises
           THEN /\ d_pc' = "raised"
                /\ UNCHANGED log
           ELSE /\ log' = Append(log, body.line)
                /\ UNCHANGED d_pc
    /\ UNCHANGED <<urls_in, urls_out, data, task, result, jobs, store, creations>>
    /\ UNCHANGED matcher_vars
    /\ UNCHANGED common_vars

\* the loop has seen every future and the with-block is left
DriverExit ==
    /\ d_pc = "loop"
    /\ Reported = Tasks
    /\ d_pc' = "exited"
    /\ UNCHANGED <<urls_in, urls_out, data, task, result, jobs, store, creations, log>>
    /\ UNCHANGED matcher_vars
    /\ UNCHANGED common_vars

NextDriver ==
    \/ \E i \in Tasks : Preprocess(i)
    \/ \E i \in Tasks : Submit(i)
    \/ \E i \in Tasks : Return(i)
    \/ \E i \in Tasks : SubmitRaises(i)
    \/ \E i \in Tasks : \E k \in 1..Len(jobs[i]) : Process(i, k)
    \/ \E i \in Tasks : \E k \in 1..Len(jobs[i]) : ProcessDies(i, k)
    \/ \E t \in Tasks : Report(t)
    \/ DriverExit
Init == InitDriver
Next == NextDriver
Spec == Init /\ [][Next]_vars
SpecDispatch == InitDispatch /\ [][NextDriver]_vars

(***************************************************************************)
(* Claims about the catalog matcher                                        *)
(***************************************************************************)
KeysOf(rows) == {<<rows[i].model, rows[i].variant>> : i \in 1..Len(rows)}
KeysOfScenario(rows, scen) == KeysOf(RowsOfScenario(rows, scen))
\* the keys present in every required scenario and in the historical table
FullCoverage(sruns, hruns, scens) ==
    {k \in KeysOf(hruns) : \A s \in Range(scens) : k \in KeysOfScenario(sruns, s)}

\* C1 as stated: for every scenario table, historical table and list of
\* required scenarios, find_common_models returns exactly the keys present
\* in every required scenario and in the historical table.
C1_ExactIntersection ==
    c_pc = "matched" =>
        Range(common_indices) = FullCoverage(scenario_runs, historical_runs, scenarios)

\* C1 amended: the same, for every non-empty list of required scenarios.
C1_ExactIntersectionNonEmpty ==
    (c_pc = "matched" /\ scenarios # <<>>) =>
        Range(common_indices) = FullCoverage(scenario_runs, historical_runs, scenarios)

\* two required scenarios, a key returned and a historical key left out
\* because one scenario lacks it
C1_Witness ==
    /\ c_pc = "matched"
    /\ Len(scenarios) >= 2
    /\ common_indices # <<>>
    /\ \E k \in KeysOf(historical_runs) : k \notin Range(common_indices)

\* the model and the variant of a listed path: the second and the third
\* wildcard segment of the pattern of line 34
ModelOf(fn) == Segment(fn, 3)
VariantOf(fn) == Segment(fn, 5)
\* a key listed once per experiment has one recorded location
UniqueKeys(fns) ==
    \A i, j \in 1..Len(fns) :
        (ModelOf(fns[i]) = ModelOf(fns[j]) /\ VariantOf(fns[i]) = VariantOf(fns[j]))
            => i = j
ListedKeys(fns) == {<<ModelOf(fns[i]), VariantOf(fns[i])>> : i \in 1..Len(fns)}
LocationOf(fns, k) ==
    CHOOSE u \in Range(fns) : <<ModelOf(u), VariantOf(u)>> = k
MatchedKeys(glob) == {k \in ListedKeys(glob[Historical]) :
                        \A s \in Range(SCENARIOS) : k \in ListedKeys(glob[s])}

\* C2: in the table main exports, the row of every matched key holds, per
\* required scenario, the location that scenario's listing records for the
\* key, and the location the historical listing records for it.
C2_ExportRoundTrip ==
    (m_pc = "done" /\ \A e \in Experiments : UniqueKeys(listings[e])) =>
        \A k \in MatchedKeys(listings) :
            \E i \in 1..Len(m_out.csv) :
                /\ m_out.csv[i].model = k[1]
                /\ m_out.csv[i].variant = k[2]
                /\ \A s \in Range(SCENARIOS) :
                      m_out.csv[i].scenario[s] = LocationOf(listings[s], k)
                /\ m_out.csv[i].historical = LocationOf(listings[Historical], k)

\* the export block alone, on tables with one row per key: every exported
\* row pairs its key with that key's own locations (see C2)
ExportLooksUpEachKey ==
    (c_pc = "exported" /\ ~exported.raised) =>
        \A i \in 1..Len(exported.rows) :
            /\ \A s \in Range(scenarios) :
                  \E r \in Range(RowsOfScenario(scenario_runs, s)) :
                      /\ r.model = exported.rows[i].model
                      /\ r.variant = exported.rows[i].variant
                      /\ r.url = exported.rows[i].scenario[s]
            /\ \E r \in Range(historical_runs) :
                  /\ r.model = exported.rows[i].model
                  /\ r.variant = exported.rows[i].variant
                  /\ r.url = exported.rows[i].historical

\* C3: when the historical listing or any one scenario listing is empty,
\* main ends by reporting that no common variants were found, raises
\* nothing and writes no file.
C3_EmptyListingReportsNothingFound ==
    (m_pc = "done" /\ \E e \in Experiments : listings[e] = <<>>) =>
        /\ m_out.end = "returned"
        /\ m_out.message = "no common variants"
        /\ ~m_out.written

\* C9: for every outcome of the listings find_model_variants returns
\* without raising, and the historical table has one row per listed
\* historical path, keyed by (model, variant) with the raw path as value
\* (no row when the listing is empty).
C9_FindModelVariantsReturns ==
    m_pc = "done" =>
        /\ ~m_found.raised
        /\ Len(m_found.historical_runs) = Len(listings[Historical])
        /\ \A i \in 1..Len(listings[Historical]) :
              /\ m_found.historical_runs[i].url = listings[Historical][i]
              /\ m_found.historical_runs[i].model = ModelOf(listings[Historical][i])
              /\ m_found.historical_runs[i].variant = VariantOf(listings[Historical][i])

(***************************************************************************)
(* Claims about the batch dispatcher                                       *)
(***************************************************************************)
\* the calendar years a stored dataset covers, and the time steps its
\* normalized form has
DatasetYears(dataset) == dataset.first .. (dataset.first + dataset.nyears - 1)
NormalizedSteps(dataset) == DatasetYears(dataset) \X (1..StepsPerYear)
JobIndices(i) == 1..Len(jobs[i])

\* C4: one call of call_lambda submits exactly one job per distinct year of
\* the dataset's time axis: as many jobs as distinct years, no year twice,
\* every job with the call's input and output location, from the moment
\* the jobs are handed to the backend, whether the call then returns or
\* raises (and a call that has not reached the submission has submitted
\* none).
C4_OneJobPerDistinctYear ==
    \A i \in Tasks :
        /\ (task[i] \in {"submitted", "returned"} \/ jobs[i] # <<>>) =>
              /\ Len(jobs[i]) = Cardinality(DatasetYears(data[urls_in[i]]))
              /\ {jobs[i][k].yr : k \in JobIndices(i)} = DatasetYears(data[urls_in[i]])
              /\ \A k, l \in JobIndices(i) : k # l => jobs[i][k].yr # jobs[i][l].yr
              /\ \A k \in JobIndices(i) :
                    /\ jobs[i][k].url_in = urls_in[i]
                    /\ jobs[i][k].url_out = urls_out[i]
        /\ task[i] \in {"pending", "preprocessed"} => jobs[i] = <<>>

\* a call for a dataset spanning three years has returned
C4_Witness ==
    \E i \in Tasks :
        /\ task[i] = "returned"
        /\ Cardinality(DatasetYears(data[urls_in[i]])) >= 3
        /\ Len(jobs[i]) >= 3

\* the time steps the year filter of job k of task i keeps
KeptBy(i, k) ==
    LET d == data[urls_in[i]]
    IN  Coords(YearFilter(tpw(convert_calendar(SourceAxis(d.first, d.nyears))),
                          jobs[i][k].yr))

C6_Partition ==
    \A i \in Tasks :
        jobs[i] # <<>> =>
            /\ \A c \in NormalizedSteps(data[urls_in[i]]) :
                  Cardinality({k \in JobIndices(i) : c \in KeptBy(i, k)}) = 1
            /\ (\A k \in JobIndices(i) : jobs[i][k].state = "done") =>
                  store[urls_out[i]].written = NormalizedSteps(data[urls_in[i]])

C6_Frame ==
    \A i \in Tasks : \A k \in JobIndices(i) :
        (jobs[i][k].state = "submitted" /\ jobs'[i][k].state = "done") =>
            \A o \in OutputUrls :
                \A c \in store[o].written \cup store'[o].written :
                    ((c \in store[o].written) # (c \in store'[o].written)) =>
                        (o = jobs[i][k].url_out /\ c[1] = jobs[i][k].yr)

\* C6: for one dataset the per-year slices partition the normalized time
\* axis: every time step is kept by the filter of exactly one job, the jobs
\* together leave no step unwritten, and the job of year y changes nothing
\* outside the region of year y.
C6_YearSlicesPartition == [](C6_Partition) /\ [][C6_Frame]_vars

\* every job of a dataset of two or more years has written its slice
C6_Witness ==
    \E i \in Tasks :
        /\ task[i] = "returned"
        /\ Len(jobs[i]) >= 2
        /\ \A k \in JobIndices(i) : jobs[i][k].state = "done"
        /\ store[urls_out[i]].written = NormalizedSteps(data[urls_in[i]])

\* C5: a local task that raises leaves the others alone: the driver never
\* raises, every line it logs reports the outcome of the task it belongs
\* to, no task is reported twice, only a task whose own dataset cannot be
\* opened fails in preprocess, and when the driver leaves the pool every
\* task has finished and has been reported.
C5_FailureIsolation ==
    /\ d_pc # "raised"
    /\ \A x, y \in 1..Len(log) : x # y => log[x].task # log[y].task
    /\ \A x \in 1..Len(log) :
          log[x].kind = (IF task[log[x].task] = "returned" THEN "completed" ELSE "error")
    /\ \A i \in Tasks :
          /\ task[i] \in {"preprocessed", "submitted", "returned"} => data[urls_in[i]].readable
          /\ ~data[urls_in[i]].readable => task[i] \in {"pending", "raised"}
    /\ d_pc = "exited" =>
          /\ Reported = Tasks
          /\ Len(log) = Len(urls_in)
          /\ \A i \in Tasks : task[i] \in {"returned", "raised"}

\* the driver has left the pool after one task failed in preprocess and
\* another one completed
C5_Witness ==
    /\ d_pc = "exited"
    /\ \E x, y \in 1..Len(log) :
          /\ log[x].kind = "error"
          /\ ~data[urls_in[log[x].task]].readable
          /\ log[y].kind = "completed"

\* C7: the shell at each output location is created exactly once, before
\* any job for that location is submitted, and never again afterwards,
\* for every list of inputs.
C7_ShellCreatedOnceBeforeJobs ==
    [][\A o \in OutputUrls :
          creations'[o] # creations[o] =>
              /\ creations[o] = 0
              /\ \A i \in Tasks : \A k \in JobIndices(i) : jobs[i][k].url_out # o]_vars

C8_Outcome ==
    /\ \A i \in Tasks : task[i] = "returned" => result[i] = urls_in[i]
    /\ \A x \in 1..Len(log) :
          /\ (log[x].kind = "completed") <=> (task[log[x].task] = "returned")
          /\ log[x].kind = "completed" => log[x].detail = urls_in[log[x].task]

C8_Step ==
    /\ (\E i \in Tasks : \E k \in JobIndices(i) : jobs'[i][k].state # jobs[i][k].state)
          => (task' = task /\ result' = result /\ log' = log)
    /\ \A i \in Tasks : \A k \in JobIndices(i) :
          /\ k \in 1..Len(jobs'[i])
          /\ (task' # task) => jobs'[i][k] = jobs[i][k]

\* C8: a local task's outcome depends on preprocess and on the submission
\* only: a returned task holds its input location and is reported as
\* completed whatever state its jobs are in, a step of a remote job
\* changes no task's outcome and no log line, and a task that finishes or
\* fails leaves every submitted job as it was.
C8_FireAndForget == [](C8_Outcome) /\ [][C8_Step]_vars

\* a task is reported as completed while one of its jobs has failed and
\* another has not run yet
C8_Witness ==
    \E x \in 1..Len(log) :
        /\ log[x].kind = "completed"
        /\ \E k, l \in JobIndices(log[x].task) :
              /\ jobs[log[x].task][k].state = "failed"
              /\ jobs[log[x].task][l].state = "submitted"

\* a task whose submission raised is reported as an error while a job it
\* had handed over has written its slice
SubmissionRaisedAfterHandOver ==
    \E y \in 1..Len(log) :
        /\ log[y].kind = "error"
        /\ \E k \in JobIndices(log[y].task) : jobs[log[y].task][k].state = "done"

\* C10: every log line carries the position its dataset has in the input
\* list, in whatever order the local tasks finish.
C10_LogIndexIsInputPosition ==
    \A x \in 1..Len(log) : log[x].index = log[x].task

====
